---------------------------- MODULE Spec2Model ----------------------------
(***************************************************************************)
(* Model of the Scraper class (classes/Scraper.ts) of web-scraper: one     *)
(* session of run() -> scrape() against the remote browser service, with   *)
(* the events the service can raise while the session is in progress.      *)
(*                                                                         *)
(* Every `await` of scrape()/setupPage()/cleanup() is a suspension point:  *)
(* pc names the remote operation the session is suspended on, and the      *)
(* action that handles its reply runs all the synchronous code up to the   *)
(* next await.  A timeout of an operation is one of the ways it fails.     *)
(***************************************************************************)
EXTENDS Integers, Sequences, FiniteSets, TLC

VARIABLES
    cfg,            \* this._CONFIG
    pc,             \* the await the session is suspended on, "Idle" or "Done"
    browser,        \* this.browser : Null or a handle
    context,        \* this.context : Null or a handle
    page,           \* this.page    : Null or a handle
    newPage,        \* setupPage's local `page` : Null or a handle
    listeners,      \* events of the page the session is subscribed to
    res,            \* scrape's `res` : <<>> (null) or <<response>>
    result,         \* scrape's `result` object, built field by field
    scrapeRet,      \* the value scrape() returns, decided before `finally`
    delivered,      \* envelopes run() has resolved to
    connected,      \* remote: browser.isConnected()
    contextOpen,    \* remote: the context exists and is not closed
    pageOpen,       \* remote: the page exists and is not closed
    crashed,        \* remote: the page's render process died
    routeInstalled, \* remote: the "**/*" route is installed on the page
    dialog,         \* remote: "none", or "dismissing" (dismiss() in flight)
    intercepted,    \* the last request blockResources handled: <<>> or <<r>>
    uncaught,       \* errors raised in listeners, where scrape() cannot catch
    created,        \* handles the service created for this session
    closeReq,       \* close() calls issued, per handle
    tdLog,          \* teardown steps in the order they were started
    closedAt,       \* pc at which the `close` listener ran, or "never"
    crashedAt,      \* pc at which the `crash` listener ran, or "never"
    thrown,         \* message of the error scrape()'s catch block caught, or ""
    tdConnected,    \* isConnected() when teardown began: "unset", "yes", "no"
    env,            \* process.env: the keys that are set, with their values
    launchOptions,  \* this.launchOptions
    envRead,        \* the keys of process.env the constructor has read
    connectReq,     \* what connect() was called on and with: <<>> or <<r>>
    issued,         \* the remote operations of the try block, as issued
    pageTimeout,    \* remote: the page's default timeout, UndefNum if not set
    heap,           \* the launch option objects of the process, by cell
    scrapers,       \* the Scraper instances of a process that has several
    closes,         \* the unroute and close calls of those instances
    instance,       \* browser, context, page of an instance run() is
                    \* called on several times
    runs            \* the run() calls on that instance: where each stands

vars == << cfg, pc, browser, context, page, newPage, listeners, res, result,
           scrapeRet, delivered, connected, contextOpen, pageOpen, crashed,
           routeInstalled, dialog, intercepted, uncaught, created, closeReq,
           tdLog, closedAt, crashedAt, thrown, tdConnected, env,
           launchOptions, envRead, connectReq, issued, pageTimeout,
           heap, scrapers, closes, instance, runs >>

-----------------------------------------------------------------------------
(* JavaScript values *)

Null       == "null"
Undef      == "undefined"          \* an absent optional string / StringBoolean
UndefNum   == 0 - 1                \* an absent optional number
UndefStr   == << "undefined" >>    \* an absent optional character string

\* The empty object {} as IScraperResult.
EmptyObject == [f \in {} |-> Null]

Has(obj, f) == f \in DOMAIN obj

\* obj.f = v
Put(obj, f, v) == (f :> v) @@ obj

\* parseBool (utils/parseBool.ts)
parseBool(value) ==
    IF value = Undef THEN TRUE
    ELSE IF value = "true" \/ value = "1" \/ value = "yes" \/ value = "on"
            \/ value = "enabled" THEN TRUE
    ELSE FALSE

\* JavaScript truthiness of an optional StringBoolean / string field.
Truthy(value) == value \notin {Undef, "", "<false>"}

\* JavaScript truthiness of an optional number field.
TruthyNum(n) == n # UndefNum /\ n # 0

\* JavaScript truthiness of an optional character string.
TruthyStr(s) == s # UndefStr /\ s # << >>

\* String.prototype.split(sep) on a character string: the pieces between
\* the separators, empty pieces included.
RECURSIVE SplitFrom(_, _, _)
SplitFrom(s, sep, cur) ==
    IF s = << >> THEN << cur >>
    ELSE IF Head(s) = sep THEN << cur >> \o SplitFrom(Tail(s), sep, << >>)
    ELSE SplitFrom(Tail(s), sep, Append(cur, Head(s)))

\* Variant of Split: the string is not split, it is the only entry.
SplitNone(s, sep) == << s >>

Split(s, sep) == SplitFrom(s, sep, << >>)

\* Array.prototype.includes
Includes(arr, x) == \E i \in 1..Len(arr) : arr[i] = x

-----------------------------------------------------------------------------
(* Configurations (IScraperConfig, types/Scraper.types.ts) *)

Urls == { "http://a" }

\* view_source?: StringBoolean
ViewSourceValues == { Undef, "true", "false" }

\* block_resources?: string, as a character string; resource types are
\* abbreviated to one character: i(mage), m(edia).
BlockLists == { UndefStr, << "i" >>, << "i", ",", "m" >>, << "i", "m" >> }

\* route.request().resourceType()
ResourceTypes == { << "i" >>, << "m" >> }

\* eval_js?: string; "%" is not a valid percent-encoding.
Scripts == { Undef, "1%2B1", "%" }

\* screenshot?: StringBoolean
ScreenshotValues == { Undef, "true" }

\* wait_for?: number
WaitForValues == { UndefNum, 5 }

\* wait_for_css?: string
Selectors == { Undef, "#x" }

\* StringBoolean (types/Scraper.types.ts, line 5); "<true>" and "<false>"
\* are the booleans true and false, the others the strings.
Affirmative    == { "true", "1", "yes", "on", "enabled", "<true>" }
Negative       == { "false", "0", "no", "off", "disabled", "<false>" }
StringBooleans == Affirmative \cup Negative

\* enum ProxyType
ProxyTypes == { "none", "ipv6", "mobile", "residential", "datacenter",
                "custom" }

\* browser_type?: BrowserTypes; "opera" is a value outside the type.
BrowserTypeValues == { Undef, "webkit", "firefox", "chromium", "opera" }

\* timeout?: number
TimeoutValues == { UndefNum, 0, 1, 30000 }

\* The launch fields of a configuration that leaves every optional one out.
AllConfigs ==
    [ url : Urls, view_source : ViewSourceValues, block_resources : BlockLists,
      eval_js : Scripts, screenshot : ScreenshotValues,
      wait_for : WaitForValues, wait_for_css : Selectors,
      proxy_type : { "none" }, browser_type : { Undef }, headless : { Undef },
      block_ads : { Undef }, stealth : { Undef }, timeout : { UndefNum } ]

\* Every post-action is configured.
AllPostActions(c) ==
    /\ c.wait_for = 5 /\ c.wait_for_css = "#x"
    /\ c.eval_js = "1%2B1" /\ c.screenshot = "true"

\* The configurations sessions are run with.  The post-action fields decide
\* which steps follow the navigation; view_source and block_resources decide
\* the target URL and the route.  Each group is varied in full with the
\* other held.
Configs ==
    { c \in AllConfigs :
        \/ AllPostActions(c)
        \/ c.view_source = Undef /\ c.block_resources \in { UndefStr, << "i" >> } }

\* decodeURIComponent throws URIError on a malformed escape sequence.
DecodeThrows(js) == js = "%"

\* decodeURIComponent on the scripts of the model.
decodeURIComponent(js) == IF js = "1%2B1" THEN "1+1" ELSE js

\* What the page evaluates a script to.
Evaluate(script) == IF script = "1+1" THEN "2" ELSE "undefined"

\* Buffer.toString('base64')
Base64(buf) == << "base64", buf >>

\* The message of the error a remote operation rejects with (a refusal or
\* a timeout).
ErrMsg(op) == op \o ": failed"

-----------------------------------------------------------------------------
(* Launch options: the constructor and setupLaunchOptions() *)

\* The configurations the constructor is checked with: the launch fields
\* and view_source vary, no post-action and no block list is configured.
LaunchConfigs ==
    [ url : Urls, view_source : { Undef, "true", "<true>" },
      block_resources : { UndefStr }, eval_js : { Undef },
      screenshot : { Undef }, wait_for : { UndefNum },
      wait_for_css : { Undef },
      proxy_type : ProxyTypes, browser_type : BrowserTypeValues,
      headless : StringBooleans \cup { Undef },
      block_ads : { Undef, "1", "off" },
      stealth : { Undef, "true", "false", "<true>" },
      timeout : { UndefNum } ]

\* process.env with no key set.
EmptyEnv == [ k \in {} |-> "" ]

\* process.env with every datacenter key set.
DatacenterEnv ==
    ("PROXY_DATACENTER_SERVER" :> "dc:8080") @@
    ("PROXY_DATACENTER_USERNAME" :> "dc-user") @@
    ("PROXY_DATACENTER_PASSWORD" :> "dc-pass") @@
    ("PROXY_DATACENTER_BYPASS" :> "dc-bypass")

\* process.env with some keys of several proxy types set, one to the empty
\* string, one spelt in lower case, and the endpoint of the service.
MixedEnv ==
    ("PROXY_DATACENTER_SERVER" :> "dc:8080") @@
    ("PROXY_DATACENTER_PASSWORD" :> "") @@
    ("PROXY_MOBILE_SERVER" :> "mob:8080") @@
    ("PROXY_MOBILE_USERNAME" :> "mob-user") @@
    ("PROXY_MOBILE_PASSWORD" :> "mob-pass") @@
    ("PROXY_MOBILE_BYPASS" :> "mob-bypass") @@
    ("PROXY_custom_SERVER" :> "lower:8080") @@
    ("PROXY_IPV6_BYPASS" :> "v6-bypass") @@
    ("BROWSER_WS_ENDPOINT" :> "ws://remote")

Envs == { EmptyEnv, DatacenterEnv, MixedEnv }

\* Variant of toUpperCase: the proxy type is used as it is spelt.
toUpperCaseKeepsCase(s) == s

\* String.prototype.toUpperCase on the proxy types.
toUpperCase(s) ==
    CASE s = "ipv6"        -> "IPV6"
      [] s = "mobile"      -> "MOBILE"
      [] s = "residential" -> "RESIDENTIAL"
      [] s = "datacenter"  -> "DATACENTER"
      [] s = "custom"      -> "CUSTOM"
      [] s = "none"        -> "NONE"

\* The template string of lines 54-57.
EnvKey(type, FIELD) == "PROXY_" \o toUpperCase(type) \o "_" \o FIELD

\* process.env[key] ?? ""
EnvOrEmpty(e, key) == IF key \in DOMAIN e THEN e[key] ELSE ""

\* The keys of process.env the proxy closure reads (lines 49-59).
EnvKeysRead(c) ==
    IF c.proxy_type = "none" THEN {}
    ELSE { EnvKey(c.proxy_type, F) :
             F \in { "SERVER", "USERNAME", "PASSWORD", "BYPASS" } }

\* The value of the proxy closure (lines 48-60): << >> is undefined.
ProxyOf(c, e) ==
    IF c.proxy_type = "none" THEN << >>
    ELSE << [ server   |-> EnvOrEmpty(e, EnvKey(c.proxy_type, "SERVER")),
              username |-> EnvOrEmpty(e, EnvKey(c.proxy_type, "USERNAME")),
              password |-> EnvOrEmpty(e, EnvKey(c.proxy_type, "PASSWORD")),
              bypass   |-> EnvOrEmpty(e, EnvKey(c.proxy_type, "BYPASS")) ] >>

\* Variant of FamilySwitch: firefox is given the chromium features too.
FamilySwitchFirefoxAsChromium(lo, c) ==
    CASE c.browser_type = "webkit"   -> Put(lo, "proxy", << >>)
      [] c.browser_type \in { "firefox", "chromium" } ->
            Put(Put(lo, "stealth", parseBool(c.stealth)),
                "blockAds", parseBool(c.block_ads))
      [] OTHER                       -> lo

\* The switch on browser_type (lines 65-79).
FamilySwitch(lo, c) ==
    CASE c.browser_type = "webkit"   -> Put(lo, "proxy", << >>)
      [] c.browser_type = "firefox"  -> lo
      [] c.browser_type = "chromium" ->
            Put(Put(lo, "stealth", parseBool(c.stealth)),
                "blockAds", parseBool(c.block_ads))
      [] OTHER                       -> lo

\* setupLaunchOptions() (lines 47-80) on the launch options lo.
setupLaunchOptions(lo, c, e) ==
    FamilySwitch(Put(Put(lo, "proxy", ProxyOf(c, e)),
                     "headless", parseBool(c.headless)), c)

\* The launchOptions object of utils/constants/browser.defaults.ts.
DefaultLaunchOptions ==
    [ headless |-> TRUE, ignoreDefaultArgs |-> << "--headless" >> ]

\* The cell of the heap that holds the launchOptions object exported by
\* utils/constants/browser.defaults.ts.
DefaultsCell == 0

\* JSON.parse(JSON.stringify(lo)): a copy of lo without the fields whose
\* value is undefined.
JSONCopy(lo) ==
    [ k \in { f \in DOMAIN lo : ~(f = "proxy" /\ lo[f] = << >>) } |-> lo[k] ]

\* The launch parameters the service is given: the `launch` query of the
\* connect URL (line 108) and the options of newContext (line 121), where
\* a field set to undefined is an absent field.
LaunchParameters(lo) == JSONCopy(lo)

\* getBrowser(browser).name() (utils/getBrowser.ts)
getBrowser(b) ==
    CASE b = "webkit"  -> "webkit"
      [] b = "firefox" -> "firefox"
      [] OTHER         -> "chromium"

\* process.env.BROWSER_WS_ENDPOINT ?? "ws://127.0.0.1" (line 108)
Endpoint(e) ==
    IF "BROWSER_WS_ENDPOINT" \in DOMAIN e THEN e["BROWSER_WS_ENDPOINT"]
    ELSE "ws://127.0.0.1"

\* private _timeout (line 18)
DefaultTimeout == 60000

\* Variant of Timeout: || in place of ??, so that 0 counts as absent.
TimeoutOrDefault(c) ==
    IF TruthyNum(c.timeout) THEN c.timeout ELSE DefaultTimeout

\* get timeout() (lines 24-26): this._CONFIG.timeout ?? this._timeout
Timeout(c) == IF c.timeout # UndefNum THEN c.timeout ELSE DefaultTimeout

\* n / 2 as the fraction << numerator, denominator >> in lowest terms.
Half(n) == IF n % 2 = 0 THEN << n \div 2, 1 >> ELSE << n, 2 >>

-----------------------------------------------------------------------------
(* The remote service.  An operation can always fail (be refused or time  *)
(* out); it can succeed only on a target that is still there: a page      *)
(* operation on an open, uncrashed page over a live connection, a context  *)
(* operation on an open context.                                           *)

\* Navigation responses: null (no response object) or a response.
Responses == { << >>, << [status |-> 200, headers |-> "h200"] >> }

\* res?.headers() ?? {} (line 194); "{}" is the empty object.
ResponseHeaders(r) == IF r = << >> THEN "{}" ELSE r[1].headers

\* Variant of ResponseStatus: a missing response counts as a server error.
ResponseStatusNullIsError(r) == IF r = << >> THEN 500 ELSE r[1].status

\* res?.status() ?? 0 (line 211)
ResponseStatus(r) == IF r = << >> THEN 0 ELSE r[1].status

\* The page can serve an operation.
PageAlive == connected /\ pageOpen /\ ~crashed

\* The page can complete an operation that needs the page's main thread:
\* a native dialog blocks it while open.
PageResponsive == PageAlive /\ dialog = "none"

ContextAlive == connected /\ contextOpen

-----------------------------------------------------------------------------
(* Variable groups *)

fieldVars  == << browser, context, page, newPage >>
remoteVars == << connected, contextOpen, pageOpen, crashed, routeInstalled,
                 dialog >>
eventVars  == << intercepted, uncaught, closedAt, crashedAt >>
tdVars     == << scrapeRet, thrown, delivered, closeReq, tdLog, tdConnected >>
configVars == << cfg, env, launchOptions, envRead >>
reqVars    == << connectReq, pageTimeout >>
rerunVars  == << instance, runs >>
pairVars   == << heap, scrapers, closes, rerunVars >>

AllListeners == { "crash", "close", "dialog" }
Handles      == { "browser", "context", "page" }

\* The field initialisers of the class (lines 19-21) and the service
\* before the first call.
Fresh ==
    /\ browser = Null /\ context = Null /\ page = Null /\ newPage = Null
    /\ listeners = {}
    /\ res = << >>
    /\ result = EmptyObject
    /\ scrapeRet = EmptyObject
    /\ delivered = << >>
    /\ connected = FALSE /\ contextOpen = FALSE /\ pageOpen = FALSE
    /\ crashed = FALSE /\ routeInstalled = FALSE
    /\ dialog = "none"
    /\ intercepted = << >>
    /\ uncaught = {}
    /\ created = {}
    /\ closeReq = [h \in Handles |-> 0]
    /\ tdLog = << >>
    /\ closedAt = "never" /\ crashedAt = "never"
    /\ thrown = ""
    /\ tdConnected = "unset"
    /\ connectReq = << >>
    /\ issued = << >>
    /\ pageTimeout = UndefNum

\* The run() calls made on one instance.
NumRuns == 2

Runs == 1..NumRuns

\* The fields of lines 19-21 after construction: all null.
NullFields == [ browser |-> << >>, context |-> << >>, page |-> << >> ]

\* A run() call that has not been made; `on` is the page the listeners of
\* the call's scrape() are subscribed on, << >> when on none; `up` tells
\* whether the connection made for the call is up.
NotRun == [ stage |-> "Idle", on |-> << >>, up |-> FALSE ]

\* No run() call has been made on the instance.
NoRuns ==
    /\ instance = NullFields
    /\ runs = [ r \in Runs |-> NotRun ]

\* A process with the one Scraper instance of cfg.
OneScraper ==
    /\ heap = [ c \in { DefaultsCell } |-> DefaultLaunchOptions ]
    /\ scrapers = << >>
    /\ closes = {}
    /\ NoRuns

\* new Scraper(cfg) has returned (lines 17, 33-39): the launch options are
\* the copy of the defaults that setupLaunchOptions() has filled in.
InitWith(configs, envs) ==
    /\ cfg \in configs
    /\ env \in envs
    /\ pc = "Idle"
    /\ launchOptions =
          setupLaunchOptions(JSONCopy(DefaultLaunchOptions), cfg, env)
    /\ envRead = EnvKeysRead(cfg)
    /\ Fresh
    /\ OneScraper

Init == InitWith(Configs, { EmptyEnv })

-----------------------------------------------------------------------------
(* run() and the envelopes *)

\* scrape(): const URL (line 183)
TargetURL ==
    IF cfg.view_source # Undef /\ parseBool(cfg.view_source)
    THEN "view-source:" \o cfg.url
    ELSE cfg.url

\* page.url() after the navigation: the target, or where it redirected to.
PageUrls == { TargetURL, "http://redirected" }

\* Variant of FailureEnvelope: the catch block leaves status_code out.
FailureEnvelopeNoStatus(msg) ==
    [ url |-> cfg.url, error |-> msg ]

\* scrape(): the object the catch block returns (lines 215-219)
FailureEnvelope(msg) ==
    [ url |-> cfg.url, error |-> msg, status_code |-> 500 ]

\* run() (lines 240-250): how run() settles, given how scrape() settled.
RunSettle(scraped) ==
    IF scraped.kind = "rejected"
    THEN [ kind  |-> "fulfilled",
           value |-> Put(Put(Put(EmptyObject, "url", cfg.url),
                             "error", scraped.reason), "status_code", 500) ]
    ELSE [ kind |-> "fulfilled", value |-> scraped.value ]

\* Variant of ScrapeSettle: a close that cleanup could not complete makes
\* scrape() reject.
ScrapeSettleCleanupThrows(ret) ==
    IF page # Null /\ pageOpen
    THEN [ kind |-> "rejected", value |-> ret, reason |-> "page.close: failed" ]
    ELSE [ kind |-> "fulfilled", value |-> ret, reason |-> "" ]

\* scrape() settles with the value its try or catch block returned: the
\* finally block catches whatever cleanup throws (lines 221-230).
ScrapeSettle(ret) == [ kind |-> "fulfilled", value |-> ret, reason |-> "" ]

-----------------------------------------------------------------------------
(* cleanup() and the finally block of scrape() *)

\* Variant of CleanupAfterContext: with the connection already dropped,
\* cleanup waits for a `disconnected` event, which has already passed.
CleanupAfterContextAwaitsDisconnect ==
    IF browser # Null
    THEN (IF connected THEN "TdBrowserClose" ELSE "TdAwaitDisconnected")
    ELSE "Done"

\* Variant of CleanupAfterContext: browser.close() is called without asking
\* isConnected().
CleanupAfterContextNoIsConnected ==
    IF browser # Null THEN "TdBrowserClose" ELSE "Done"

\* cleanup(): what follows context.close() (lines 155-160)
CleanupAfterContext ==
    IF browser # Null /\ connected THEN "TdBrowserClose" ELSE "Done"

\* cleanup(): what follows page.close() (lines 152-154)
CleanupAfterPage ==
    IF context # Null THEN "TdContextClose" ELSE CleanupAfterContext

\* Variant of CleanupFirst: the page is closed without removing the route.
CleanupFirstSkipsUnroute ==
    IF page # Null THEN "TdPageClose" ELSE CleanupAfterPage

\* cleanup(): its first remote operation (lines 148-151)
CleanupFirst ==
    IF page # Null THEN "TdUnroute" ELSE CleanupAfterPage

\* The teardown step started on entering a teardown pc.
StepOf(next) ==
    CASE next = "TdUnroute"      -> << "unroute" >>
      [] next = "TdPageClose"    -> << "page.close" >>
      [] next = "TdContextClose" -> << "context.close" >>
      [] next = "TdBrowserClose" -> << "browser.close" >>
      [] OTHER                   -> << >>

\* The handle a teardown step asks the service to close.
ClosedBy(next) ==
    CASE next = "TdPageClose"    -> { "page" }
      [] next = "TdContextClose" -> { "context" }
      [] next = "TdBrowserClose" -> { "browser" }
      [] OTHER                   -> {}

\* Start teardown step `next` (or resolve run() when next = "Done"); `pre`
\* are the steps done synchronously just before, `ret` what scrape returns.
TeardownEnter(next, pre, ret) ==
    /\ pc' = next
    /\ tdLog' = tdLog \o pre \o StepOf(next)
    /\ closeReq' = [h \in Handles |->
                      IF h \in ClosedBy(next) THEN closeReq[h] + 1
                      ELSE closeReq[h]]
    /\ delivered' = IF next = "Done"
                    THEN Append(delivered, RunSettle(ScrapeSettle(ret)))
                    ELSE delivered

\* scrape(): the finally block up to cleanup()'s first await (lines 220-227),
\* entered with the value `ret` to return
Finally(ret) ==
    /\ scrapeRet' = ret
    /\ issued' = issued
    /\ tdConnected' = IF connected THEN "yes" ELSE "no"
    /\ listeners' = IF page # Null THEN listeners \ AllListeners ELSE listeners
    /\ TeardownEnter(CleanupFirst,
                     IF page # Null THEN << "off" >> ELSE << >>, ret)

\* Variant of Catch: the failure fields are written onto `result`, as run()
\* writes them onto `res`.
CatchKeepsResult(msg) ==
    /\ thrown' = msg
    /\ Finally(Put(Put(Put(result, "url", cfg.url), "error", msg),
                   "status_code", 500))

\* Variant of Catch: the catch block returns what was captured so far.
CatchReturnsResult(msg) ==
    /\ thrown' = msg
    /\ Finally(Put(Put(result, "url", cfg.url), "status_code", 500))

\* scrape(): the catch block (lines 214-219), then finally
Catch(msg) ==
    /\ thrown' = msg
    /\ Finally(FailureEnvelope(msg))

\* scrape(): `return result` (line 213), then finally
Return(r) ==
    /\ thrown' = thrown
    /\ Finally(r)

-----------------------------------------------------------------------------
(* scrape(): the try block *)

\* The post-action or capture step that follows the fixed-delay wait
\* (lines 198-209); "EvalThrows" when decodeURIComponent throws.
AfterScreenshot == "Content"

AfterEvaluate ==
    IF Truthy(cfg.screenshot) THEN "Screenshot" ELSE AfterScreenshot

AfterWaitForSelector ==
    IF Undef # cfg.eval_js
    THEN (IF DecodeThrows(cfg.eval_js) THEN "EvalThrows" ELSE "Evaluating")
    ELSE AfterEvaluate

AfterWaitForTimeout ==
    IF Truthy(cfg.wait_for_css) THEN "WaitForSelector"
    ELSE AfterWaitForSelector

\* Variant of AfterGoto: the fixed-delay wait is left out.
AfterGotoSkipsWait == AfterWaitForTimeout

AfterGoto ==
    IF TruthyNum(cfg.wait_for) THEN "WaitForTimeout" ELSE AfterWaitForTimeout

\* The remote operation awaited at `next`, with the timeout option it is
\* called with (<< >>: none, so the page's default timeout bounds it).
Operation(next) ==
    CASE next = "WaitForTimeout"  ->
            [ op |-> "page.waitForTimeout", timeout |-> << >> ]
      [] next = "WaitForSelector" ->
            [ op |-> "page.waitForSelector", timeout |-> << >> ]
      [] next = "Evaluating"      ->
            [ op |-> "page.evaluate", timeout |-> << >> ]
      [] next = "Screenshot"      ->
            [ op |-> "page.screenshot",
              timeout |-> << Half(Timeout(cfg)) >> ]
      [] next = "Content"         ->
            [ op |-> "page.content", timeout |-> << >> ]

\* Continue the try block with result object r up to its next await.
Advance(next, r) ==
    IF next = "EvalThrows"
    THEN /\ result' = r
         /\ Catch("URI malformed")
    ELSE IF next = "Content"
    THEN /\ \E u \in PageUrls : result' = Put(r, "url", u)
         /\ pc' = next
         /\ issued' = Append(issued, Operation(next))
         /\ UNCHANGED << listeners, tdVars >>
    ELSE /\ result' = r
         /\ pc' = next
         /\ issued' = Append(issued, Operation(next))
         /\ UNCHANGED << listeners, tdVars >>

\* run() -> scrape() -> setupBrowser(): connect is issued (lines 240-243,
\* 170-184, 106-109)
Run ==
    /\ pc = "Idle"
    /\ pc' = "Connecting"
    /\ connectReq' = << [ engine   |-> getBrowser(cfg.browser_type),
                          endpoint |-> Endpoint(env),
                          launch   |-> LaunchParameters(launchOptions) ] >>
    /\ issued' = Append(issued,
                        [ op |-> "browserType.connect", timeout |-> << >> ])
    /\ UNCHANGED << configVars, pairVars, fieldVars, listeners, res, result,
                    remoteVars, eventVars, created, tdVars, pageTimeout >>

\* Variant of ConnectReply: a failed connect is not thrown, and scrape()
\* goes on to setupContext() without a browser.
ConnectReplySwallowsFailure ==
    /\ pc = "Connecting"
    /\ \/ /\ browser' = "browser"
          /\ connected' = TRUE
          /\ created' = created \cup { "browser" }
       \/ UNCHANGED << browser, connected, created >>
    /\ pc' = "NewContext"
    /\ issued' = Append(issued,
                        [ op |-> "browser.newContext", timeout |-> << >> ])
    /\ UNCHANGED << configVars, pairVars, reqVars, res, eventVars, context,
                    page, newPage, contextOpen, pageOpen, crashed,
                    routeInstalled, dialog, listeners, result, tdVars >>

\* browser.connect() settles (lines 108, 184-185, 117-122)
ConnectReply ==
    /\ pc = "Connecting"
    /\ \/ /\ browser' = "browser"
          /\ connected' = TRUE
          /\ created' = created \cup { "browser" }
          /\ pc' = "NewContext"
          /\ issued' = Append(issued,
                              [ op |-> "browser.newContext",
                                timeout |-> << >> ])
          /\ UNCHANGED << context, page, newPage, contextOpen, pageOpen,
                          crashed, routeInstalled, dialog, listeners, result,
                          tdVars >>
       \/ /\ Catch(ErrMsg("browserType.connect"))
          /\ UNCHANGED << fieldVars, remoteVars, created, result >>
    /\ UNCHANGED << configVars, pairVars, reqVars, res, eventVars >>

\* browser.newContext() settles (lines 121, 185-186, 130-134)
NewContextReply ==
    /\ pc = "NewContext"
    /\ \/ /\ connected
          /\ context' = "context"
          /\ contextOpen' = TRUE
          /\ created' = created \cup { "context" }
          /\ pc' = "NewPage"
          /\ issued' = Append(issued,
                              [ op |-> "context.newPage", timeout |-> << >> ])
          /\ UNCHANGED << browser, page, newPage, connected, pageOpen,
                          crashed, routeInstalled, dialog, listeners, result,
                          tdVars >>
       \/ /\ Catch(ErrMsg("browser.newContext"))
          /\ UNCHANGED << fieldVars, remoteVars, created, result >>
    /\ UNCHANGED << configVars, pairVars, reqVars, res, eventVars >>

\* Variant of PageReady: the dialog listener is not registered.
PageReadyNoDialogListener(p) ==
    /\ pageTimeout' = Timeout(cfg)
    /\ page' = p
    /\ listeners' = listeners \cup { "crash", "close" }
    /\ pc' = "Navigating"
    /\ issued' = Append(issued, [ op |-> "page.goto", timeout |-> << >> ])

\* setupPage() returns and scrape() goes on to page.goto (lines 139-140,
\* 186-193): the page is stored, the listeners are registered, the
\* navigation is issued.
PageReady(p) ==
    /\ pageTimeout' = Timeout(cfg)
    /\ page' = p
    /\ listeners' = listeners \cup AllListeners
    /\ pc' = "Navigating"
    /\ issued' = Append(issued, [ op |-> "page.goto", timeout |-> << >> ])

\* context.newPage() settles (lines 134-138)
NewPageReply ==
    /\ pc = "NewPage"
    /\ \/ /\ ContextAlive
          /\ newPage' = "page"
          /\ pageOpen' = TRUE
          /\ created' = created \cup { "page" }
          /\ IF TruthyStr(cfg.block_resources)
             THEN /\ pc' = "Routing"
                  /\ issued' = Append(issued,
                                      [ op |-> "page.route",
                                        timeout |-> << >> ])
                  /\ UNCHANGED << page, listeners, pageTimeout >>
             ELSE PageReady("page")
          /\ UNCHANGED << browser, context, connected, contextOpen, crashed,
                          routeInstalled, dialog, result, tdVars >>
       \/ /\ Catch(ErrMsg("context.newPage"))
          /\ UNCHANGED << fieldVars, remoteVars, created, result,
                          pageTimeout >>
    /\ UNCHANGED << configVars, pairVars, connectReq, res, eventVars >>

\* page.route("**/*") settles (lines 137-140)
RouteReply ==
    /\ pc = "Routing"
    /\ \/ /\ PageAlive
          /\ routeInstalled' = TRUE
          /\ PageReady(newPage)
          /\ UNCHANGED << browser, context, newPage, connected, contextOpen,
                          pageOpen, crashed, dialog, result, tdVars >>
       \/ /\ Catch(ErrMsg("page.route"))
          /\ UNCHANGED << fieldVars, remoteVars, result, pageTimeout >>
    /\ UNCHANGED << configVars, pairVars, connectReq, res, eventVars,
                    created >>

\* page.goto() settles (lines 191-197)
GotoReply ==
    /\ pc = "Navigating"
    /\ \/ /\ PageResponsive
          /\ \E r \in Responses :
                /\ res' = r
                /\ Advance(AfterGoto,
                           Put(result, "headers",
                               ResponseHeaders(r)))
       \/ /\ Catch(ErrMsg("page.goto"))
          /\ UNCHANGED << res, result >>
    /\ UNCHANGED << configVars, pairVars, reqVars, fieldVars, remoteVars,
                    eventVars, created >>

\* page.waitForTimeout() settles (lines 196-198)
WaitForTimeoutReply ==
    /\ pc = "WaitForTimeout"
    /\ \/ /\ PageAlive
          /\ Advance(AfterWaitForTimeout, result)
       \/ /\ Catch(ErrMsg("page.waitForTimeout"))
          /\ UNCHANGED result
    /\ UNCHANGED << configVars, pairVars, reqVars, fieldVars, res,
                    remoteVars, eventVars, created >>

\* page.waitForSelector() settles (lines 199-201)
WaitForSelectorReply ==
    /\ pc = "WaitForSelector"
    /\ \/ /\ PageResponsive
          /\ Advance(AfterWaitForSelector, result)
       \/ /\ Catch(ErrMsg("page.waitForSelector"))
          /\ UNCHANGED result
    /\ UNCHANGED << configVars, pairVars, reqVars, fieldVars, res,
                    remoteVars, eventVars, created >>

\* page.evaluate() settles (lines 202-205)
EvaluateReply ==
    /\ pc = "Evaluating"
    /\ \/ /\ PageResponsive
          /\ Advance(AfterEvaluate,
                     Put(result, "eval_result",
                         Evaluate(decodeURIComponent(cfg.eval_js))))
       \/ /\ Catch(ErrMsg("page.evaluate"))
          /\ UNCHANGED result
    /\ UNCHANGED << configVars, pairVars, reqVars, fieldVars, res,
                    remoteVars, eventVars, created >>

\* page.screenshot() settles (lines 206-210)
ScreenshotReply ==
    /\ pc = "Screenshot"
    /\ \/ /\ PageResponsive
          /\ Advance(AfterScreenshot,
                     Put(result, "screenshot", Base64("png")))
       \/ /\ Catch(ErrMsg("page.screenshot"))
          /\ UNCHANGED result
    /\ UNCHANGED << configVars, pairVars, reqVars, fieldVars, res,
                    remoteVars, eventVars, created >>

\* page.content() settles (lines 210-212)
ContentReply ==
    /\ pc = "Content"
    /\ \/ /\ PageResponsive
          /\ result' = Put(Put(result, "body", "<html>"), "status_code",
                           ResponseStatus(res))
          /\ pc' = "Cookies"
          /\ issued' = Append(issued,
                              [ op |-> "context.cookies", timeout |-> << >> ])
          /\ UNCHANGED << listeners, tdVars >>
       \/ /\ Catch(ErrMsg("page.content"))
          /\ UNCHANGED result
    /\ UNCHANGED << configVars, pairVars, reqVars, fieldVars, res,
                    remoteVars, eventVars, created >>

\* context.cookies() settles (lines 212-213), then finally
CookiesReply ==
    /\ pc = "Cookies"
    /\ \/ /\ ContextAlive
          /\ result' = Put(result, "cookies", "jar")
          /\ Return(result')
       \/ /\ Catch(ErrMsg("context.cookies"))
          /\ UNCHANGED result
    /\ UNCHANGED << configVars, pairVars, reqVars, fieldVars, res,
                    remoteVars, eventVars, created >>

-----------------------------------------------------------------------------
(* cleanup(): each close is awaited and its rejection is logged and       *)
(* swallowed by .catch (lines 147-161)                                    *)

\* cleanup(): what follows page.unroute() (line 150)
CleanupAfterUnroute == "TdPageClose"

\* page.unroute("**/*") settles (lines 149-150)
UnrouteReply ==
    /\ pc = "TdUnroute"
    /\ \/ /\ connected
          /\ routeInstalled' = FALSE
          /\ UNCHANGED << connected, contextOpen, pageOpen, crashed, dialog >>
       \/ UNCHANGED remoteVars
    /\ TeardownEnter(CleanupAfterUnroute, << >>, scrapeRet)
    /\ UNCHANGED << configVars, pairVars, reqVars, issued, fieldVars,
                    listeners, res, result, eventVars,
                    created, scrapeRet, thrown, tdConnected >>

\* page.close() settles (lines 150-154)
PageCloseReply ==
    /\ pc = "TdPageClose"
    /\ \/ /\ connected
          /\ pageOpen' = FALSE
          /\ routeInstalled' = FALSE
          /\ UNCHANGED << connected, contextOpen, crashed, dialog >>
       \/ UNCHANGED remoteVars
    /\ TeardownEnter(CleanupAfterPage, << >>, scrapeRet)
    /\ UNCHANGED << configVars, pairVars, reqVars, issued, fieldVars,
                    listeners, res, result, eventVars,
                    created, scrapeRet, thrown, tdConnected >>

\* context.close() settles (lines 153-159)
ContextCloseReply ==
    /\ pc = "TdContextClose"
    /\ \/ /\ connected
          /\ contextOpen' = FALSE
          /\ pageOpen' = FALSE
          /\ routeInstalled' = FALSE
          /\ UNCHANGED << connected, crashed, dialog >>
       \/ UNCHANGED remoteVars
    /\ TeardownEnter(CleanupAfterContext, << >>, scrapeRet)
    /\ UNCHANGED << configVars, pairVars, reqVars, issued, fieldVars,
                    listeners, res, result, eventVars,
                    created, scrapeRet, thrown, tdConnected >>

\* browser.close() settles (lines 158-161); scrape() and run() resolve
BrowserCloseReply ==
    /\ pc = "TdBrowserClose"
    /\ \/ /\ connected
          /\ connected' = FALSE
          /\ contextOpen' = FALSE
          /\ pageOpen' = FALSE
          /\ routeInstalled' = FALSE
          /\ UNCHANGED << crashed, dialog >>
       \/ UNCHANGED remoteVars
    /\ TeardownEnter("Done", << >>, scrapeRet)
    /\ UNCHANGED << configVars, pairVars, reqVars, issued, fieldVars,
                    listeners, res, result, eventVars,
                    created, scrapeRet, thrown, tdConnected >>

-----------------------------------------------------------------------------
(* Events of the remote service and the session's listeners *)

\* The connection to the service drops.
Disconnect ==
    /\ connected
    /\ pc # "Done"
    /\ connected' = FALSE
    /\ contextOpen' = FALSE
    /\ pageOpen' = FALSE
    /\ routeInstalled' = FALSE
    /\ UNCHANGED << configVars, pairVars, reqVars, issued, pc, fieldVars,
                    listeners, res, result, crashed,
                    dialog, eventVars, created, tdVars >>

\* The page is closed from outside the session; the `close` listener, when
\* registered, logs a warning (lines 176-178).
PageClosed ==
    /\ pageOpen /\ connected
    /\ pc # "Done"
    /\ pageOpen' = FALSE
    /\ routeInstalled' = FALSE
    /\ closedAt' = IF "close" \in listeners THEN pc ELSE closedAt
    /\ UNCHANGED << configVars, pairVars, reqVars, issued, pc, fieldVars,
                    listeners, res, result, connected,
                    contextOpen, crashed, dialog, intercepted, uncaught,
                    crashedAt, created, tdVars >>

\* The `crash` listener (lines 172-175): it logs and throws; the throw
\* unwinds into the event emitter that called the listener, not into
\* scrape()'s try block.
crash ==
    /\ uncaught' = uncaught \cup { "Page crashed" }
    /\ crashedAt' = pc

\* The page's render process dies; the `crash` listener runs when
\* registered.
PageCrash ==
    /\ PageAlive
    /\ pc # "Done"
    /\ crashed' = TRUE
    /\ IF "crash" \in listeners
       THEN crash
       ELSE UNCHANGED << uncaught, crashedAt >>
    /\ UNCHANGED << configVars, pairVars, reqVars, issued, pc, fieldVars,
                    listeners, res, result, connected,
                    contextOpen, pageOpen, routeInstalled, dialog,
                    intercepted, closedAt, created, tdVars >>

\* The page opens a native dialog; the `dialog` listener calls
\* dialog.dismiss() (lines 179-181).
DialogOpens ==
    /\ "dialog" \in listeners
    /\ PageAlive
    /\ dialog = "none"
    /\ dialog' = "dismissing"
    /\ UNCHANGED << configVars, pairVars, reqVars, issued, pc, fieldVars,
                    listeners, res, result, connected,
                    contextOpen, pageOpen, crashed, routeInstalled,
                    eventVars, created, tdVars >>

\* dialog.dismiss() settles (line 180): the dialog is gone, dismissed or
\* lost with its page; a rejection is an unhandled rejection of the
\* listener's promise.
DismissReply ==
    /\ dialog = "dismissing"
    /\ dialog' = "none"
    /\ uncaught' = IF PageAlive THEN uncaught
                   ELSE uncaught \cup { "dialog.dismiss rejected" }
    /\ UNCHANGED << configVars, pairVars, reqVars, issued, pc, fieldVars,
                    listeners, res, result, connected,
                    contextOpen, pageOpen, crashed, routeInstalled,
                    intercepted, closedAt, crashedAt, created, tdVars >>

\* blockResources(route, resources) (lines 89-99): the calls it makes on
\* the route of a request of resource type `type`; a call that rejects is
\* logged and changes nothing else.
blockResources(type, resources) ==
    [ type  |-> type,
      calls |-> IF Includes(resources, type) THEN << "abort" >>
                ELSE << "continue" >> ]

\* The page issues a request while the route is installed: the handler of
\* setupPage (lines 136-137) runs blockResources.
Intercept ==
    /\ routeInstalled
    /\ PageAlive
    /\ \E type \in ResourceTypes :
          intercepted' =
              << blockResources(type, Split(cfg.block_resources, ",")) >>
    /\ UNCHANGED << configVars, pairVars, reqVars, issued, pc, fieldVars,
                    listeners, res, result, remoteVars,
                    uncaught, closedAt, crashedAt, created, tdVars >>

-----------------------------------------------------------------------------

\* The steps of the session itself: the settling of the operation it awaits.
SessionStep ==
    \/ Run
    \/ ConnectReply
    \/ NewContextReply
    \/ NewPageReply
    \/ RouteReply
    \/ GotoReply
    \/ WaitForTimeoutReply
    \/ WaitForSelectorReply
    \/ EvaluateReply
    \/ ScreenshotReply
    \/ ContentReply
    \/ CookiesReply
    \/ UnrouteReply
    \/ PageCloseReply
    \/ ContextCloseReply
    \/ BrowserCloseReply

Next ==
    \/ Run
    \/ ConnectReply
    \/ NewContextReply
    \/ NewPageReply
    \/ RouteReply
    \/ GotoReply
    \/ WaitForTimeoutReply
    \/ WaitForSelectorReply
    \/ EvaluateReply
    \/ ScreenshotReply
    \/ ContentReply
    \/ CookiesReply
    \/ UnrouteReply
    \/ PageCloseReply
    \/ ContextCloseReply
    \/ BrowserCloseReply
    \/ Disconnect
    \/ PageClosed
    \/ PageCrash
    \/ DialogOpens
    \/ DismissReply
    \/ Intercept

Spec == Init /\ [][Next]_vars

\* The configurations the progress properties are checked with: every
\* combination of post-actions, with and without a block list.
LiveConfigs ==
    { c \in Configs :
        c.view_source = Undef /\ c.block_resources \in { UndefStr, << "i" >> } }

LiveInit == Init /\ cfg \in LiveConfigs

\* Every remote operation eventually replies, fails or times out, and the
\* event loop runs the continuation; the events of the service are under no
\* obligation to happen.
LiveSpec ==
    /\ LiveInit
    /\ [][Next]_vars
    /\ WF_vars(SessionStep)
    /\ WF_vars(DismissReply)

-----------------------------------------------------------------------------
(* Sessions over every value of one configuration field *)

\* The configuration with every post-action and a block list.
FullConfig ==
    [ url |-> "http://a", view_source |-> Undef,
      block_resources |-> << "i" >>, eval_js |-> "1%2B1",
      screenshot |-> "true", wait_for |-> 5, wait_for_css |-> "#x",
      proxy_type |-> "none", browser_type |-> Undef, headless |-> Undef,
      block_ads |-> Undef, stealth |-> Undef, timeout |-> UndefNum ]

\* The configuration with no post-action and no block list.
PlainConfig ==
    [ FullConfig EXCEPT !.block_resources = UndefStr, !.eval_js = Undef,
                        !.screenshot = Undef, !.wait_for = UndefNum,
                        !.wait_for_css = Undef ]

\* screenshot?: StringBoolean, every member and undefined.
ScreenshotConfigs ==
    { FullConfig } \cup
    { [ PlainConfig EXCEPT !.screenshot = v ] :
        v \in StringBooleans \cup { Undef } }

ScreenshotSpec == InitWith(ScreenshotConfigs, { EmptyEnv }) /\ [][Next]_vars

\* timeout?: number, with the screenshot and the selector wait configured.
TimeoutConfigs ==
    { [ FullConfig EXCEPT !.timeout = t ] : t \in TimeoutValues }

TimeoutSpec == InitWith(TimeoutConfigs, { EmptyEnv }) /\ [][Next]_vars

-----------------------------------------------------------------------------
(* The constructor, applied to every launch configuration and environment *)

\* The field initialisers have run (line 17), the constructor body has not.
LaunchInit ==
    /\ cfg \in LaunchConfigs
    /\ env \in Envs
    /\ pc = "New"
    /\ launchOptions = JSONCopy(DefaultLaunchOptions)
    /\ envRead = {}
    /\ Fresh
    /\ OneScraper

\* constructor(config) (lines 33-39)
Constructor ==
    /\ pc = "New"
    /\ launchOptions' = setupLaunchOptions(launchOptions, cfg, env)
    /\ envRead' = envRead \cup EnvKeysRead(cfg)
    /\ pc' = "Idle"
    /\ UNCHANGED << cfg, env, pairVars, reqVars, issued, fieldVars, listeners,
                    res, result, remoteVars, eventVars, created, tdVars >>

LaunchNext ==
    \/ Constructor
    \/ Run

LaunchSpec == LaunchInit /\ [][LaunchNext]_vars

-----------------------------------------------------------------------------
(* Several Scraper instances in one process, their sessions interleaved.   *)
(* Each instance is constructed with a configuration of its own and runs a *)
(* session without post-actions; scrapers[i] holds the fields of instance  *)
(* i and the await its session is suspended on.  The handle the service    *)
(* creates on a request of instance i is << kind, i >>; << >> is null.     *)

NumInstances == 2

Instances == 1..NumInstances

\* The configurations the instances are constructed with.
PairConfigs ==
    { [ PlainConfig EXCEPT !.browser_type = "chromium", !.stealth = "true" ],
      [ PlainConfig EXCEPT !.browser_type = "webkit",
                           !.proxy_type = "datacenter" ],
      [ PlainConfig EXCEPT !.browser_type = "firefox",
                           !.proxy_type = "datacenter",
                           !.headless = "false" ] }

\* An instance that has not been constructed.
NoScraper ==
    [ stage |-> "New", config |-> PlainConfig, launchOptions |-> DefaultsCell,
      browser |-> << >>, context |-> << >>, page |-> << >>,
      listeners |-> {} ]

PairInit ==
    /\ cfg = PlainConfig
    /\ env = DatacenterEnv
    /\ pc = "Idle"
    /\ launchOptions = JSONCopy(DefaultLaunchOptions)
    /\ envRead = {}
    /\ Fresh
    /\ heap = [ c \in { DefaultsCell } |-> DefaultLaunchOptions ]
    /\ scrapers = [ i \in Instances |-> NoScraper ]
    /\ closes = {}
    /\ NoRuns

\* Variant of OwnCell: this.launchOptions is the imported object itself.
SharedCell(i) == DefaultsCell

\* The cell of the object the field initialiser of instance i creates
\* (line 17): JSON.parse returns a new object.
OwnCell(i) == i

\* new Scraper(c) for instance i (lines 17-21, 33-39)
Construct(i) ==
    /\ scrapers[i].stage = "New"
    /\ \E c \in PairConfigs :
          /\ heap' = (OwnCell(i) :>
                        setupLaunchOptions(JSONCopy(heap[DefaultsCell]), c,
                                           env)) @@ heap
          /\ scrapers' = [ scrapers EXCEPT
                             ![i].stage = "Idle",
                             ![i].config = c,
                             ![i].launchOptions = OwnCell(i) ]
    /\ UNCHANGED << configVars, closes, rerunVars, reqVars, issued, pc,
                    fieldVars,
                    listeners, res, result, remoteVars, eventVars, created,
                    tdVars >>

\* The awaits of the try block of a session without post-actions, in order.
PairStages ==
    << "Connecting", "NewContext", "NewPage", "Navigating", "Content",
       "Cookies" >>

\* cleanup() of an instance with the fields f (lines 148-160): the stage
\* that follows context.close(), page.close(), the start and `stage`.
PairAfterContext(f, isConnected) ==
    IF f.browser # << >> /\ isConnected THEN "TdBrowserClose" ELSE "Done"

PairAfterPage(f, isConnected) ==
    IF f.context # << >> THEN "TdContextClose"
    ELSE PairAfterContext(f, isConnected)

PairFirst(f, isConnected) ==
    IF f.page # << >> THEN "TdUnroute" ELSE PairAfterPage(f, isConnected)

PairAfter(f, stage, isConnected) ==
    CASE stage = "TdUnroute"      -> "TdPageClose"
      [] stage = "TdPageClose"    -> PairAfterPage(f, isConnected)
      [] stage = "TdContextClose" -> PairAfterContext(f, isConnected)
      [] stage = "TdBrowserClose" -> "Done"

\* The call a teardown stage makes, by instance i with the fields f.
PairCall(i, f, stage) ==
    CASE stage = "TdUnroute"      ->
            { [ by |-> i, op |-> "page.unroute", on |-> f.page ] }
      [] stage = "TdPageClose"    ->
            { [ by |-> i, op |-> "page.close", on |-> f.page ] }
      [] stage = "TdContextClose" ->
            { [ by |-> i, op |-> "context.close", on |-> f.context ] }
      [] stage = "TdBrowserClose" ->
            { [ by |-> i, op |-> "browser.close", on |-> f.browser ] }
      [] OTHER                    -> {}

\* Instance i enters teardown stage `next` (or is done).
PairEnter(i, f, next) ==
    /\ scrapers' = [ scrapers EXCEPT ![i] = [ f EXCEPT !.stage = next ] ]
    /\ closes' = closes \cup PairCall(i, f, next)

\* run() on instance i: connect is issued (lines 240-243, 184, 106-109)
PairRun(i) ==
    /\ scrapers[i].stage = "Idle"
    /\ scrapers' = [ scrapers EXCEPT ![i].stage = "Connecting" ]
    /\ UNCHANGED << configVars, heap, closes, rerunVars, reqVars, issued, pc,
                    fieldVars,
                    listeners, res, result, remoteVars, eventVars, created,
                    tdVars >>

\* The fields of instance i after the await of `stage` has resolved
\* (lines 184-189).
PairAssign(i, f, stage) ==
    CASE stage = "Connecting" -> [ f EXCEPT !.browser = << "browser", i >> ]
      [] stage = "NewContext" -> [ f EXCEPT !.context = << "context", i >> ]
      [] stage = "NewPage"    -> [ f EXCEPT !.page = << "page", i >>,
                                            !.listeners = AllListeners ]
      [] OTHER                -> f

\* The await of the try block that instance i is suspended on settles
\* (lines 184-231): resolved, the session goes on to the next await or,
\* after the last, to finally; rejected, to catch and finally.
PairReply(i) ==
    /\ \E k \in 1..Len(PairStages) :
          /\ scrapers[i].stage = PairStages[k]
          /\ \/ /\ k < Len(PairStages)
                /\ scrapers' =
                      [ scrapers EXCEPT
                          ![i] = [ PairAssign(i, scrapers[i], PairStages[k])
                                     EXCEPT !.stage = PairStages[k + 1] ] ]
                /\ UNCHANGED closes
             \/ \E isConnected \in BOOLEAN :
                   LET f == [ scrapers[i] EXCEPT !.listeners = {} ]
                   IN  PairEnter(i, f, PairFirst(f, isConnected))
    /\ UNCHANGED << configVars, heap, rerunVars, reqVars, issued, pc,
                    fieldVars,
                    listeners, res, result, remoteVars, eventVars, created,
                    tdVars >>

\* The close that instance i awaits settles, resolved or rejected
\* (lines 149-158), and cleanup() goes on.
PairCloseReply(i) ==
    /\ scrapers[i].stage \in { "TdUnroute", "TdPageClose", "TdContextClose",
                              "TdBrowserClose" }
    /\ \E isConnected \in BOOLEAN :
          PairEnter(i, scrapers[i],
                    PairAfter(scrapers[i], scrapers[i].stage, isConnected))
    /\ UNCHANGED << configVars, heap, rerunVars, reqVars, issued, pc,
                    fieldVars,
                    listeners, res, result, remoteVars, eventVars, created,
                    tdVars >>

PairNext ==
    \E i \in Instances :
       \/ Construct(i)
       \/ PairRun(i)
       \/ PairReply(i)
       \/ PairCloseReply(i)

PairSpec == PairInit /\ [][PairNext]_vars

-----------------------------------------------------------------------------
(* run() called several times on one instance                              *)
(*                                                                         *)
(* The calls are made one after another or while an earlier one is still   *)
(* pending.  Each call runs a session without post-actions; all of them    *)
(* read and write the same three fields, which are assigned in lines       *)
(* 184-186 and reset nowhere.  The handle the service creates on a request *)
(* of call r is << kind, r >>; the calls a teardown makes are recorded in  *)
(* closes, page.off included.                                              *)

RerunInit == InitWith({ PlainConfig }, { EmptyEnv })

\* run() is called on the instance: connect is issued (lines 240-243, 184)
Rerun(r) ==
    /\ runs[r].stage = "Idle"
    /\ runs' = [ runs EXCEPT ![r].stage = "Connecting" ]
    /\ UNCHANGED << configVars, heap, scrapers, closes, instance, reqVars,
                    issued, pc, fieldVars, listeners, res, result,
                    remoteVars, eventVars, created, tdVars >>

\* The fields after the await of `stage` of call r has resolved
\* (lines 184-186).
RerunAssign(r, f, stage) ==
    CASE stage = "Connecting" -> [ f EXCEPT !.browser = << "browser", r >> ]
      [] stage = "NewContext" -> [ f EXCEPT !.context = << "context", r >> ]
      [] stage = "NewPage"    -> [ f EXCEPT !.page = << "page", r >> ]
      [] OTHER                -> f

\* What this.browser.isConnected() can return (line 156): false for a
\* connection that has dropped or was closed, either for one that was up.
IsConnected ==
    IF instance.browser # << >> /\ runs[instance.browser[2]].up
    THEN BOOLEAN
    ELSE { FALSE }

\* The calls with the connection of this.browser found as isConnected
\* tells: a connection that is down stays down.
Observed(rs, isConnected) ==
    IF instance.browser = << >>
    THEN rs
    ELSE [ rs EXCEPT ![instance.browser[2]].up = isConnected ]

\* The page.off calls of finally (lines 222-226), by call r with the
\* fields f.
RerunOff(r, f) ==
    IF f.page # << >>
    THEN { [ by |-> r, op |-> "page.off", on |-> f.page ] }
    ELSE {}

\* Call r enters finally (lines 220-227): its listeners are taken off
\* this.page, which removes them only where they are subscribed, and
\* cleanup() makes its first call.
RerunFinally(r) ==
    \E isConnected \in IsConnected :
       LET next == PairFirst(instance, isConnected)
       IN  /\ runs' = [ Observed(runs, isConnected) EXCEPT
                          ![r].stage = next,
                          ![r].on = IF instance.page = runs[r].on
                                    THEN << >> ELSE runs[r].on ]
           /\ closes' = closes \cup RerunOff(r, instance)
                                \cup PairCall(r, instance, next)
           /\ UNCHANGED instance

\* The await of the try block that call r is suspended on settles (lines
\* 184-231): resolved, the field is assigned and the session goes on to
\* the next await (the listeners are subscribed on the page just
\* assigned, lines 186-189) or, after the last, to finally; rejected, to
\* catch and finally.
RerunReply(r) ==
    /\ \E k \in 1..Len(PairStages) :
          /\ runs[r].stage = PairStages[k]
          /\ \/ /\ k < Len(PairStages)
                /\ instance' = RerunAssign(r, instance, PairStages[k])
                /\ runs' = [ runs EXCEPT
                               ![r].stage = PairStages[k + 1],
                               ![r].on = IF PairStages[k] = "NewPage"
                                         THEN << "page", r >>
                                         ELSE runs[r].on,
                               ![r].up = IF PairStages[k] = "Connecting"
                                         THEN TRUE
                                         ELSE runs[r].up ]
                /\ UNCHANGED closes
             \/ RerunFinally(r)
    /\ UNCHANGED << configVars, heap, scrapers, reqVars, issued, pc,
                    fieldVars, listeners, res, result, remoteVars,
                    eventVars, created, tdVars >>

\* The close that call r awaits settles, resolved or rejected (lines
\* 149-158), and cleanup() goes on with the fields as they are now.
RerunCloseReply(r) ==
    /\ runs[r].stage \in { "TdUnroute", "TdPageClose", "TdContextClose",
                           "TdBrowserClose" }
    /\ \E isConnected \in IsConnected :
          LET next == PairAfter(instance, runs[r].stage, isConnected)
          IN  /\ runs' = [ Observed(runs, isConnected) EXCEPT
                             ![r].stage = next ]
              /\ closes' = closes \cup PairCall(r, instance, next)
    /\ UNCHANGED << configVars, heap, scrapers, instance, reqVars, issued,
                    pc, fieldVars, listeners, res, result, remoteVars,
                    eventVars, created, tdVars >>

RerunNext ==
    \E r \in Runs :
       \/ Rerun(r)
       \/ RerunReply(r)
       \/ RerunCloseReply(r)

RerunSpec == RerunInit /\ [][RerunNext]_vars

-----------------------------------------------------------------------------
(* Properties *)

\* From page.goto being issued to the last await of the try block.
PageStages ==
    { "Navigating", "WaitForTimeout", "WaitForSelector", "Evaluating",
      "Screenshot", "Content", "Cookies" }

TeardownStages ==
    { "TdUnroute", "TdPageClose", "TdContextClose", "TdBrowserClose" }

\* The envelope run() resolved to.
Envelope == delivered[1].value

IsFailureEnvelope(e, msg) ==
    /\ DOMAIN e = { "url", "error", "status_code" }
    /\ e.url = cfg.url
    /\ e.error = msg
    /\ e.status_code = 500

\* C1: run() never raises: it has resolved to no envelope before the
\* session is done and to exactly one when it is done, whatever failed or
\* happened on the way, and that envelope has url and status_code.
C1_RunResolvesToOneEnvelope ==
    /\ Len(delivered) = (IF pc = "Done" THEN 1 ELSE 0)
    /\ \A i \in 1..Len(delivered) :
          /\ delivered[i].kind = "fulfilled"
          /\ Has(delivered[i].value, "url")
          /\ Has(delivered[i].value, "status_code")

\* A session done after a stage failed on a crashed page whose close failed.
C1_Witness ==
    /\ pc = "Done"
    /\ thrown # ""
    /\ crashedAt # "never"
    /\ pageOpen /\ closeReq["page"] = 1

\* C2: once a stage has failed, the value scrape() returns, and the
\* envelope run() resolves to, is exactly {url: the config url, error: the
\* error's message, status_code: 500}, whatever had been captured; an
\* envelope of a session in which nothing failed has no error field.
C2_FailureEnvelopeShape ==
    /\ (pc \in TeardownStages \cup { "Done" } /\ thrown # "")
          => IsFailureEnvelope(scrapeRet, thrown)
    /\ (pc = "Done" /\ thrown # "") => IsFailureEnvelope(Envelope, thrown)
    /\ (pc = "Done" /\ thrown = "") => ~Has(Envelope, "error")

\* A view-source session that failed reading the cookies, after headers,
\* eval_result, screenshot, url and body had been captured.
C2_Witness ==
    /\ pc = "Done"
    /\ thrown = ErrMsg("context.cookies")
    /\ cfg.view_source = "true"
    /\ { "headers", "eval_result", "screenshot", "url", "body" }
          \subseteq DOMAIN result

\* C3: when every remote operation eventually replies, fails or times out,
\* every session eventually is done.
C3_SessionTerminates == <>(pc = "Done")

\* A failed session is done although every close of its teardown failed.
C3_Witness ==
    /\ pc = "Done"
    /\ thrown # ""
    /\ \A h \in Handles : closeReq[h] = 1
    /\ connected /\ contextOpen /\ pageOpen

\* C4 (as claimed): no handle gets a second close request, and when the
\* session is done every handle created in it has got one, the connection
\* excepted when it had dropped by the time cleanup came to it.
C4_EveryCreatedHandleClosedOnce ==
    /\ \A h \in Handles : closeReq[h] <= 1
    /\ pc = "Done" =>
          \A h \in created :
             closeReq[h] = 1 \/ (h = "browser" /\ ~connected)

\* The teardown steps in the order cleanup is to take them.
FullTeardown ==
    << "off", "unroute", "page.close", "context.close", "browser.close" >>

Rank(step) == CHOOSE i \in 1..Len(FullTeardown) : FullTeardown[i] = step

IsPrefix(s, t) == Len(s) <= Len(t) /\ SubSeq(t, 1, Len(s)) = s

\* C5: the teardown steps start in the order off, unroute, page.close,
\* context.close, browser.close, one at a time; with a page stored none is
\* skipped but, on a dropped connection, the last; and no listener is
\* subscribed once the first of them has started.
C5_TeardownOrder ==
    /\ \A i, j \in 1..Len(tdLog) :
          i < j => Rank(tdLog[i]) < Rank(tdLog[j])
    /\ pc \in TeardownStages => tdLog[Len(tdLog)] = StepOf(pc)[1]
    /\ pc \in TeardownStages \cup { "Done" } => listeners = {}
    /\ page # Null => IsPrefix(tdLog, FullTeardown)
    /\ (pc = "Done" /\ page # Null) => Len(tdLog) >= 4

\* A session done after all five steps, although closing the page failed.
C5_Witness ==
    /\ pc = "Done"
    /\ tdLog = FullTeardown
    /\ pageOpen

\* C6 (as claimed): once the crash listener has run, the session is past
\* its try block, the error has not escaped scrape(), and the envelope, when
\* run() has resolved, is a failure with status_code 500.
C6_CrashPreemptsAndIsCaught ==
    crashedAt # "never" =>
       /\ pc \notin PageStages
       /\ "Page crashed" \notin uncaught
       /\ pc = "Done" =>
             (Has(Envelope, "error") /\ Envelope.status_code = 500)

C8_DialogsNeverStallTheSession ==
    /\ [](pc \in PageStages => "dialog" \in listeners)
    /\ (dialog = "dismissing") ~> (dialog = "none")
    /\ (dialog = "dismissing") ~> (pc = "Done")

\* A dialog is open while the navigation is pending.
C8_Witness ==
    /\ pc = "Navigating"
    /\ dialog = "dismissing"

\* C9: a session whose connection had dropped when teardown began gets
\* done with one envelope, the one decided before teardown; browser.close()
\* is never called, and the page and the context still get their close.
C9_TeardownOnDroppedConnection ==
    ("browser" \in created /\ tdConnected = "no") =>
       /\ closeReq["browser"] = 0
       /\ pc # "TdBrowserClose"
       /\ pc = "Done" =>
             /\ Len(delivered) = 1
             /\ delivered[1].kind = "fulfilled"
             /\ Envelope = scrapeRet
             /\ page # Null => closeReq["page"] = 1
             /\ context # Null => closeReq["context"] = 1

\* A session done whose connection dropped before teardown, after the page
\* had been stored.
C9_Witness ==
    /\ pc = "Done"
    /\ tdConnected = "no"
    /\ page # Null
    /\ closeReq["page"] = 1 /\ closeReq["context"] = 1

\* type is one of the comma-separated entries of the character string s.
IsEntry(s, type) ==
    \E i \in 1..Len(s) :
       \E j \in i..Len(s) :
          /\ SubSeq(s, i, j) = type
          /\ \A k \in i..j : s[k] # ","
          /\ i = 1 \/ s[i - 1] = ","
          /\ j = Len(s) \/ s[j + 1] = ","

\* C10: with a block list configured the route is installed on the open
\* page from the navigation being issued to the end of the try block, and
\* each intercepted request gets exactly one call: abort when its resource
\* type is an entry of the block list, continue otherwise.
C10_BlockListDecidesEachRequest ==
    /\ (TruthyStr(cfg.block_resources) /\ pc \in PageStages /\ pageOpen)
          => routeInstalled
    /\ intercepted # << >> =>
          LET r == intercepted[1] IN
             /\ Len(r.calls) = 1
             /\ r.calls[1] \in { "abort", "continue" }
             /\ r.calls[1] = "abort" <=> IsEntry(cfg.block_resources, r.type)

\* A media request is aborted during the navigation (block list "i,m").
C10_Witness ==
    /\ pc = "Navigating"
    /\ intercepted = << [ type |-> << "m" >>, calls |-> << "abort" >> ] >>

-----------------------------------------------------------------------------
(* Properties of the launch parameters *)

\* The launch parameters of the constructed scraper.
Launch == LaunchParameters(launchOptions)

\* The environment key PROXY_<TYPE>_<FIELD> of each proxy type, as the
\* README spells it.
ProxyPrefix ==
    [ ipv6 |-> "PROXY_IPV6_", mobile |-> "PROXY_MOBILE_",
      residential |-> "PROXY_RESIDENTIAL_", datacenter |-> "PROXY_DATACENTER_",
      custom |-> "PROXY_CUSTOM_" ]

\* The value of key k in the environment, "" when it is not set.
EnvValue(k) == IF k \in DOMAIN env THEN env[k] ELSE ""

\* C11: the constructed launch parameters have no proxy when proxy_type is
\* none or the family is webkit; otherwise they have one whose server,
\* username, password and bypass are the environment's values under
\* PROXY_<TYPE>_<FIELD> ("" when unset); and the only keys read are
\* those of the configured type.
C11_ProxyFromMatchingEnvKeys ==
    pc # "New" =>
       /\ (cfg.proxy_type = "none" \/ cfg.browser_type = "webkit")
             => ~Has(Launch, "proxy")
       /\ (cfg.proxy_type # "none" /\ cfg.browser_type # "webkit") =>
             /\ Has(Launch, "proxy")
             /\ Launch.proxy =
                   << [ server   |-> EnvValue(ProxyPrefix[cfg.proxy_type]
                                                \o "SERVER"),
                        username |-> EnvValue(ProxyPrefix[cfg.proxy_type]
                                                \o "USERNAME"),
                        password |-> EnvValue(ProxyPrefix[cfg.proxy_type]
                                                \o "PASSWORD"),
                        bypass   |-> EnvValue(ProxyPrefix[cfg.proxy_type]
                                                \o "BYPASS") ] >>
       /\ cfg.proxy_type = "none" => envRead = {}
       /\ cfg.proxy_type # "none" =>
             envRead = { ProxyPrefix[cfg.proxy_type] \o F :
                           F \in { "SERVER", "USERNAME", "PASSWORD",
                                   "BYPASS" } }

\* A firefox scraper constructed with the mobile proxy in an environment
\* that also sets datacenter keys.
C11_Witness ==
    /\ pc = "Idle"
    /\ cfg.proxy_type = "mobile" /\ cfg.browser_type = "firefox"
    /\ env = MixedEnv
    /\ Launch.proxy[1].server = "mob:8080"

\* C12: for chromium the launch parameters have stealth and blockAds, equal
\* to the normalised stealth and block_ads flags; for firefox and webkit
\* they have neither field.
C12_StealthAndAdBlockFamilyGated ==
    pc # "New" =>
       /\ cfg.browser_type = "chromium" =>
             /\ Has(Launch, "stealth") /\ Has(Launch, "blockAds")
             /\ Launch.stealth = parseBool(cfg.stealth)
             /\ Launch.blockAds = parseBool(cfg.block_ads)
       /\ cfg.browser_type \in { "firefox", "webkit" } =>
             ~Has(Launch, "stealth") /\ ~Has(Launch, "blockAds")

\* A firefox scraper constructed with stealth and ad blocking asked for.
C12_Witness ==
    /\ pc = "Idle"
    /\ cfg.browser_type = "firefox"
    /\ cfg.stealth = "true" /\ cfg.block_ads = "1"

\* C13 (as claimed): when browser_type is absent or unrecognised, connect is
\* called on chromium and the launch parameters are those setupLaunchOptions
\* computes for the same configuration with browser_type chromium.
C13_UnknownFamilyIsChromium ==
    (connectReq # << >> /\ cfg.browser_type \notin
                             { "webkit", "firefox", "chromium" }) =>
       /\ connectReq[1].engine = "chromium"
       /\ connectReq[1].launch =
             LaunchParameters(
                setupLaunchOptions(JSONCopy(DefaultLaunchOptions),
                                   [cfg EXCEPT !.browser_type = "chromium"],
                                   env))

\* C14 (as claimed): an affirmative headless flag gives headless launch
\* parameters and a negative one headful ones; on chromium the same holds of
\* stealth; and an affirmative view_source makes the target the
\* view-source form of the url.
C14_NormalizerMapsStringBooleans ==
    pc # "New" =>
       /\ cfg.headless \in Affirmative => Launch.headless = TRUE
       /\ cfg.headless \in Negative => Launch.headless = FALSE
       /\ (cfg.browser_type = "chromium" /\ cfg.stealth \in Affirmative)
             => Launch.stealth = TRUE
       /\ cfg.view_source \in Affirmative
             => TargetURL = "view-source:" \o cfg.url

-----------------------------------------------------------------------------
(* Properties of the post-actions *)

\* The operations of the try block issued so far.
IssuedOps == { issued[i].op : i \in 1..Len(issued) }

\* C15 (as claimed): page.screenshot is issued only when the screenshot
\* flag is affirmative, it has been issued by the time the content is read
\* when the flag is affirmative, and a success envelope has a screenshot
\* field exactly when the flag is affirmative.
C15_ScreenshotExactlyWhenAffirmative ==
    /\ "page.screenshot" \in IssuedOps => cfg.screenshot \in Affirmative
    /\ ("page.content" \in IssuedOps /\ cfg.screenshot \in Affirmative)
          => "page.screenshot" \in IssuedOps
    /\ (pc = "Done" /\ thrown = "") =>
          (Has(Envelope, "screenshot") <=> cfg.screenshot \in Affirmative)

\* The timeout the claims call effective.
EffectiveTimeout == IF cfg.timeout = UndefNum THEN 60000 ELSE cfg.timeout

\* C19: whenever the navigation or the selector wait has been issued, it
\* was issued without a timeout of its own on a page whose default timeout
\* is the effective timeout (the config's, 0 included, else 60000); and
\* the screenshot is issued with a timeout of exactly half of it.
C19_EffectiveTimeoutBoundsOperations ==
    \A i \in 1..Len(issued) :
       /\ issued[i].op \in { "page.goto", "page.waitForSelector" } =>
             /\ issued[i].timeout = << >>
             /\ pageTimeout = EffectiveTimeout
       /\ issued[i].op = "page.screenshot" =>
             /\ Len(issued[i].timeout) = 1
             /\ 2 * issued[i].timeout[1][1]
                   = EffectiveTimeout * issued[i].timeout[1][2]

\* A session with timeout 0 has issued its screenshot, the page's default
\* timeout being 0.
C19_Witness ==
    /\ cfg.timeout = 0
    /\ pageTimeout = 0
    /\ pc = "Screenshot"
    /\ issued[Len(issued)] =
          [ op |-> "page.screenshot", timeout |-> << << 0, 1 >> >> ]

-----------------------------------------------------------------------------
(* Properties of the order of the operations *)

\* The envelope the try or the catch block decided on.
Decided ==
    IF thrown = "" THEN result
    ELSE [ url |-> cfg.url, error |-> thrown, status_code |-> 500 ]

\* C16: whichever teardown steps fail, a done session has asked for the
\* route to be removed and the page closed when it holds a page, for the
\* context to be closed when it holds one, and for the connection to be
\* closed when it holds a live one; and what scrape() returns, and run()
\* resolves to, is the envelope decided before teardown.
C16_TeardownStepsIndependent ==
    /\ pc = "Done" =>
          /\ page # Null =>
                /\ closeReq["page"] = 1
                /\ \E i \in 1..Len(tdLog) : tdLog[i] = "unroute"
          /\ context # Null => closeReq["context"] = 1
          /\ (browser # Null /\ connected) => closeReq["browser"] = 1
          /\ Len(delivered) = 1
          /\ Envelope = Decided
    /\ pc \in TeardownStages => scrapeRet = Decided

\* A session done with a success envelope although removing the route and
\* closing the page, the context and the connection all failed.
C16_Witness ==
    /\ pc = "Done"
    /\ thrown = ""
    /\ connected /\ contextOpen /\ pageOpen /\ routeInstalled
    /\ tdLog = FullTeardown
    /\ \A h \in Handles : closeReq[h] = 1
    /\ ~Has(Envelope, "error") /\ Has(Envelope, "cookies")

\* The post-actions and the capture a configuration asks for, in the order
\* they are to run.
ExpectedAfterGoto ==
    (IF cfg.wait_for # UndefNum THEN << "page.waitForTimeout" >> ELSE << >>)
    \o (IF cfg.wait_for_css # Undef THEN << "page.waitForSelector" >>
        ELSE << >>)
    \o (IF cfg.eval_js # Undef THEN << "page.evaluate" >> ELSE << >>)
    \o (IF cfg.screenshot \in Affirmative THEN << "page.screenshot" >>
        ELSE << >>)
    \o << "page.content", "context.cookies" >>

\* The position of page.goto in issued, 0 if it has not been issued.
GotoAt ==
    IF "page.goto" \in IssuedOps
    THEN CHOOSE i \in 1..Len(issued) : issued[i].op = "page.goto"
    ELSE 0

\* The operations issued after page.goto.
IssuedAfterGoto ==
    [ i \in 1..(Len(issued) - GotoAt) |-> issued[GotoAt + i].op ]

\* The operation a stage of the try block awaits.
AwaitedAt(stage) ==
    CASE stage = "Navigating"      -> "page.goto"
      [] stage = "WaitForTimeout"  -> "page.waitForTimeout"
      [] stage = "WaitForSelector" -> "page.waitForSelector"
      [] stage = "Evaluating"      -> "page.evaluate"
      [] stage = "Screenshot"      -> "page.screenshot"
      [] stage = "Content"         -> "page.content"
      [] stage = "Cookies"         -> "context.cookies"

\* C17: what has been issued after the navigation is an initial part of
\* wait, selector wait, evaluation, screenshot (those configured), content,
\* cookies; the operation pending is the last one issued, so each starts
\* after the one before it has settled; and the last one issued in a failed
\* session is the one that failed (or the one before the script that could
\* not be decoded).
C17_PostActionsInOrder ==
    /\ GotoAt # 0 => IsPrefix(IssuedAfterGoto, ExpectedAfterGoto)
    /\ pc \in PageStages => issued[Len(issued)].op = AwaitedAt(pc)
    /\ (thrown # "" /\ thrown # "URI malformed")
          => thrown = ErrMsg(issued[Len(issued)].op)
    /\ thrown = "URI malformed" => "page.evaluate" \notin IssuedOps

\* A session without a selector wait is done after wait, evaluation,
\* screenshot, content and cookies.
C17_Witness ==
    /\ pc = "Done"
    /\ thrown = ""
    /\ cfg.wait_for_css = Undef
    /\ IssuedAfterGoto = << "page.waitForTimeout", "page.evaluate",
                            "page.screenshot", "page.content",
                            "context.cookies" >>

\* C18: a context has been requested only on a connection that was opened,
\* a page only in a context that was created, a route or a navigation only
\* on a page that was created; and a session whose connect failed has
\* issued nothing else, has closed nothing and is done with the failure
\* envelope.
C18_OwnershipChain ==
    /\ "browser.newContext" \in IssuedOps
          => ("browser" \in created /\ browser # Null)
    /\ "context.newPage" \in IssuedOps
          => ("context" \in created /\ context # Null)
    /\ (IssuedOps \cap { "page.route", "page.goto" } # {})
          => "page" \in created
    /\ "page.goto" \in IssuedOps => page # Null
    /\ thrown = ErrMsg("browserType.connect") =>
          /\ IssuedOps = { "browserType.connect" }
          /\ created = {} /\ tdLog = << >>
          /\ \A h \in Handles : closeReq[h] = 0
          /\ pc = "Done"
          /\ IsFailureEnvelope(Envelope, thrown)

\* A session done after its connect was refused.
C18_Witness ==
    /\ pc = "Done"
    /\ thrown = ErrMsg("browserType.connect")
    /\ Len(delivered) = 1

-----------------------------------------------------------------------------
(* Properties of several instances *)

\* The launch parameters instance i presents to the service.
LaunchOf(i) == LaunchParameters(heap[scrapers[i].launchOptions])

\* C20: the exported defaults are never changed; the launch parameters of
\* every constructed instance are, in every state, those computed from the
\* defaults and its own configuration, whatever the other instances have
\* done since; and every unroute and close is called by the instance for
\* which the service created the handle, on the handle its field holds.
C20_InstancesShareNoMutableState ==
    /\ heap[DefaultsCell] =
          [ headless |-> TRUE, ignoreDefaultArgs |-> << "--headless" >> ]
    /\ \A i \in Instances :
          scrapers[i].stage # "New" =>
             /\ scrapers[i].launchOptions # DefaultsCell
             /\ \A j \in Instances \ { i } :
                   scrapers[j].launchOptions # scrapers[i].launchOptions
             /\ LaunchOf(i) =
                   LaunchParameters(
                      setupLaunchOptions(
                         [ headless |-> TRUE,
                           ignoreDefaultArgs |-> << "--headless" >> ],
                         scrapers[i].config, env))
    /\ \A c \in closes :
          /\ c.on # << >>
          /\ c.on[2] = c.by
    /\ \A i \in Instances :
          scrapers[i].stage = "Done" =>
             \A h \in { scrapers[i].page, scrapers[i].context } \ { << >> } :
                \E c \in closes : c.by = i /\ c.on = h

\* Two instances constructed with different configurations are both done,
\* each having closed its own page, context and connection.
C20_Witness ==
    /\ scrapers[1].stage = "Done" /\ scrapers[2].stage = "Done"
    /\ scrapers[1].config # scrapers[2].config
    /\ \A i \in { 1, 2 } :
          \A k \in { "page", "context", "browser" } :
             \E c \in closes : c.by = i /\ c.on = << k, i >>

-----------------------------------------------------------------------------
(* Properties of a navigation without a response *)

\* The messages a failed session can carry: that of a rejected operation
\* or of the script that could not be decoded.
FailureMessages ==
    { ErrMsg(op) : op \in { "browserType.connect", "browser.newContext",
                            "context.newPage", "page.route", "page.goto",
                            "page.waitForTimeout", "page.waitForSelector",
                            "page.evaluate", "page.screenshot",
                            "page.content", "context.cookies" } }
    \cup { "URI malformed" }

\* C21: a navigation that resolved without a response is no failure: the
\* session is then at a post-action or at the capture with headers {} and
\* nothing thrown, nothing is ever thrown but by a rejected operation or an
\* undecodable script, and when nothing is thrown later the envelope is a
\* success envelope with headers {}, status_code 0 and no error.
C21_NoResponseIsNotAFailure ==
    /\ thrown \in FailureMessages \cup { "" }
    /\ (pc \in PageStages \ { "Navigating" } /\ res = << >>) =>
          /\ thrown = ""
          /\ result.headers = "{}"
    /\ (pc = "Done" /\ thrown = "" /\ res = << >>) =>
          /\ Envelope.headers = "{}"
          /\ Envelope.status_code = 0
          /\ ~Has(Envelope, "error")
          /\ { "url", "body", "cookies" } \subseteq DOMAIN Envelope

\* A session whose navigation gave no response is done with a success
\* envelope that holds the evaluation result and the screenshot.
C21_Witness ==
    /\ pc = "Done"
    /\ res = << >>
    /\ thrown = ""
    /\ AllPostActions(cfg)
    /\ Envelope.status_code = 0
    /\ { "eval_result", "screenshot" } \subseteq DOMAIN Envelope

-----------------------------------------------------------------------------
(* Properties of the moment run() resolves *)

\* C22 (as claimed): run() has resolved only in a done session, and in a
\* done session no listener is subscribed, every handle the session holds
\* has got its close (the connection excepted when it has dropped), and no
\* call made by a listener is still in flight.
C22_NothingPendingWhenRunResolves ==
    /\ Len(delivered) > 0 => pc = "Done"
    /\ pc = "Done" =>
          /\ listeners = {}
          /\ page # Null => closeReq["page"] = 1
          /\ context # Null => closeReq["context"] = 1
          /\ (browser # Null /\ connected) => closeReq["browser"] = 1
          /\ dialog = "none"

-----------------------------------------------------------------------------
(* Properties of run() called several times on one instance *)

\* C23 (as claimed): every page.off, unroute and close a teardown makes is
\* made on a handle that was created for the same run() call.
C23_TeardownTouchesOwnHandlesOnly ==
    \A c \in closes : c.on[2] = c.by

=============================================================================
